---- MODULE Spec2Model ----
(***************************************************************************)
(* Model of the tile-source cache (SourceManager, source_manager.py), the  *)
(* tile route that consumes it (routes/tiles.py) and the life cycle of the *)
(* decoder handles it hands out (BioformatsFileTileSource and              *)
(* BioformatsReader, large_image_source_bioformats/__init__.py).           *)
(*                                                                         *)
(* Worker threads run requests concurrently.  A request is one of          *)
(*   get_tile      get_source(image_id, style) followed by source.getTile  *)
(*   close_source  SourceManager.close_source(image_id)                    *)
(*   clear_cache   SourceManager.clear_cache()                             *)
(*   image_dir     assignment to SourceManager.image_dir                   *)
(* A handle is a Python object: nothing in the server closes it; its       *)
(* reader is closed by __del__ once neither the cache nor a request holds  *)
(* a reference to it (action finalize).                                    *)
(***************************************************************************)
EXTENDS Integers, Sequences, FiniteSets, TLC

\* ---- bounds of the model ------------------------------------------------
NumThreads == 2     \* worker threads
NumImages == 3      \* image files in each directory
NumDirs == 1        \* values image_dir can take
MaxCapacity == 2    \* max_sources is chosen in 1..MaxCapacity
MaxHandles == 3     \* tile sources large_image.open returns in one behaviour
MaxSeriesLevel == 1 \* native resolutions of a file are 0..MaxSeriesLevel
MaxTime == 2        \* time.time() runs from 0 to MaxTime
NumAliases == 1     \* files that are also named without their extension

\* the largest max_sources of a cache whose calls are made one at a time
AdminCapacity == MaxCapacity + 1

Threads == 1..NumThreads
Images == 1..NumImages
Dirs == 1..NumDirs
OtherDir == NumDirs + 1                 \* a directory the server is not started with
Keys == (1..OtherDir) \X Images
NoKey == <<0, 0>>                       \* cache_key = None
Styles == {"none", "empty", "nonempty"} \* None, {} or '', a non-empty style
HandleIds == 1..MaxHandles
SeriesLevels == 0..MaxSeriesLevel
BaseLevels == {0}                       \* the finest native resolution only

VARIABLES
  image_dir,    \* SourceManager._image_dir
  max_sources,  \* SourceManager._max_sources
  sources,      \* SourceManager._sources: OrderedDict, oldest entry first
  lock,         \* owner of SourceManager._lock, 0 when free
  handles,      \* every tile source large_image.open has returned, by id
  pc,           \* position of each thread in its request
  image_id,     \* argument image_id of the thread's call, 0 when none
  style,        \* bool(style) of the thread's get_source call
  path,         \* local path / cache key resolved by the thread
  source,       \* local source of the thread: a handle id, 0 when none
  seriesLevel,  \* local seriesLevel of the thread's getTile, 0 outside it
  plane,        \* locals fc, fz, ft of the thread's getTile
  region,       \* locals offsetx, offsety, width, height of the thread's getTile
  meta,         \* what Bio-Formats reports for the image file (_metadata)
  req,          \* arguments of the route call: route, col/x, row/y, level, frame
  ret,          \* value the last call whose caller keeps the result returned
  now,          \* time.time()
  acquired,     \* history: distinct keys acquired, least recent first
  removed,      \* history: an entry was removed other than by LRU eviction
  epochOpens,   \* history: per key, the opens that returned a source since
                \* the key was last removed from the cache
  fresh,        \* history: the thread's source was returned by get_source
                \* for its cache key and the key was not removed since
  jvm           \* the process's Java VM: _jvm_started, owner of _jvm_lock,
                \* jpy.has_jvm(), and history of create_jvm and _stop_jvm

vars == <<image_dir, max_sources, sources, lock, handles, pc, image_id, style,
          path,
          source, seriesLevel, plane, region, meta, req, ret, now, acquired,
          removed, epochOpens, fresh, jvm>>

mgr == <<image_dir, max_sources, sources, lock>>
locals == <<image_id, style, path, source, seriesLevel, plane, region>>
hist == <<acquired, removed, epochOpens, fresh>>
file == <<meta, req, ret, now, jvm>>

\* ---- pure helpers -------------------------------------------------------

\* the image ids of the calls: id i of Images is the name of file i with its
\* extension, id NumImages + i the same name without the extension
ImageIds == 1..(NumImages + NumAliases)

\* the file an image id names: `self._image_dir / image_id` exists, or the
\* first `self._image_dir / f'{image_id}{ext}'` that exists
FileNamed(img) == IF img > NumImages THEN img - NumImages ELSE img

\* variant of resolve_image_path: the image id is used as it was given
resolve_image_path_verbatim(dir, img) == <<dir, img>>

\* _resolve_image_path: the resolved path of the file image_id names under
\* the image directory
resolve_image_path(dir, img) == <<dir, FileNamed(img)>>

\* `if style:` a style is used only when it is non-empty
Truthy(s) == s = "nonempty"

\* variant of cache_key: the style is left out of the key
cache_key_unstyled(p, styled) == p

\* cache_key = str(path), or None for a styled request
cache_key(p, styled) == IF styled THEN NoKey ELSE p

KeysOf(s) == {s[i].key : i \in 1..Len(s)}
HandlesOf(s) == {s[i].src : i \in 1..Len(s)}

\* `cache_key in self._sources`
InCache(k) == k \in KeysOf(sources)

\* variant of CacheHit: the cache is never consulted
CacheHit_never(k) == FALSE

\* `if cache_key and cache_key in self._sources`
CacheHit(k) == k # NoKey /\ InCache(k)

\* variant of LockFree: the critical section is entered without the lock
LockFree_ignored == TRUE

\* `with self._lock:` can be entered
LockFree == lock = 0

\* `self._sources[cache_key]`
Lookup(s, k) == (CHOOSE i \in 1..Len(s) : s[i].key = k)

\* variant of Without: the oldest entry is deleted, whatever its key
Without_oldest(s, k) == Tail(s)

\* `del self._sources[cache_key]`, and the removal move_to_end begins with
Without(s, k) == SelectSeq(s, LAMBDA e : e.key # k)

\* variant of move_to_end: a hit does not promote the entry
move_to_end_none(s, k) == s

\* OrderedDict.move_to_end(key)
move_to_end(s, k) == Append(Without(s, k), s[Lookup(s, k)])

\* variant of popitems: evicts only when over capacity (`>` for `>=`)
RECURSIVE popitems_late(_, _)
popitems_late(s, max) == IF Len(s) > max /\ Len(s) > 0
                         THEN popitems_late(Tail(s), max) ELSE s

\* `while len(self._sources) >= self._max_sources: popitem(last=False)`
\* (max_sources >= 1, so the loop stops before the cache is empty)
RECURSIVE popitems(_, _)
popitems(s, max) == IF Len(s) >= max /\ Len(s) > 0
                    THEN popitems(Tail(s), max) ELSE s

\* `self._sources[cache_key] = (source, time.time())`: a new key goes to the
\* end, an existing key keeps its position
setitem(s, k, h) ==
  IF k \in KeysOf(s)
  THEN [i \in 1..Len(s) |->
          IF s[i].key = k THEN [key |-> k, src |-> h, time |-> now] ELSE s[i]]
  ELSE Append(s, [key |-> k, src |-> h, time |-> now])

\* variant of ReaderClose: close leaves the native reader open
ReaderClose_noop(h) == h

\* variant of ReaderClose: close does not test whether _reader is still set
ReaderClose_unguarded(h) ==
  [h EXCEPT !.reader = "closed", !.closes = h.closes + 1]

\* BioformatsReader.close: the native close runs only while _reader is set
ReaderClose(h) ==
  IF h.reader = "open"
  THEN [h EXCEPT !.reader = "closed", !.closes = h.closes + 1]
  ELSE h

\* variant of Unreferenced: a source is finalized as soon as it leaves the
\* cache, whoever still uses it
Unreferenced_cacheOnly(h) == h \notin HandlesOf(sources)

\* a handle no reference leads to: not in the cache, not a request's local
Unreferenced(h) ==
  /\ h \notin HandlesOf(sources)
  /\ \A t \in Threads : source[t] # h

\* variant of TileLockFree: all tile sources share one lock
TileLockFree_shared(h) == \A g \in 1..Len(handles) : handles[g].tileLock = 0

\* variant of TileLockFree: the decode section is entered without the lock
TileLockFree_ignored(h) == TRUE

\* `with self._tileLock:` of tile source h can be entered
TileLockFree(h) == handles[h].tileLock = 0

\* history: the keys acquired, the most recent last; no longer recorded once
\* an entry was removed explicitly
Touch(a, k) == IF removed THEN <<>> ELSE Append(SelectSeq(a, LAMBDA x : x # k), k)

\* history: forget the epoch of the keys in K, whose entries were removed
ResetEpoch(f, K) == [k \in Keys |-> IF k \in K THEN 0 ELSE f[k]]
Stale(K) == [t \in Threads |-> IF path[t] \in K THEN FALSE ELSE fresh[t]]

\* ---- geometry of a Bio-Formats tile source -----------------------------
_singleTileThreshold == 2048
_tileSize == 512
_maxSkippedLevels == 3
MaxLog == 20        \* base-2 logarithms are searched in -MaxLog..MaxLog

Max(a, b) == IF a >= b THEN a ELSE b
Min(a, b) == IF a <= b THEN a ELSE b
Abs(a) == IF a < 0 THEN 0 - a ELSE a
CeilDiv(a, b) == (a + b - 1) \div b

\* math.ceil(math.log(float(a) / b) / math.log(2)) for a, b > 0: the least k
\* with b * 2^k >= a, negative when b is at least twice a
CeilLog2(a, b) ==
  IF a > b
  THEN CHOOSE k \in 1..MaxLog : 2^k >= CeilDiv(a, b) /\ 2^(k - 1) < CeilDiv(a, b)
  ELSE 0 - (CHOOSE j \in 0..MaxLog : 2^j <= b \div a /\ 2^(j + 1) > b \div a)

\* the image file of the cache model: a single-tile image, one plane
NoFile == [sizeX |-> 1, sizeY |-> 1, resolutionCount |-> 1,
           optimalTileWidth |-> 0, optimalTileHeight |-> 0,
           sizeC |-> 1, sizeZ |-> 1, sizeT |-> 1, nonInt |-> {},
           pixelType |-> "uint8", unreadable |-> {}]

\* the route call of the cache model: get_tile for tile (0, 0) of level 0
NoRequest == [route |-> "tile", x |-> 0, y |-> 0, level |-> 0, frame |-> 0,
              encoding |-> "JPEG"]

\* variant of EnsureValid: the reported size is used as it is
EnsureValid_reported(m, key) == m[key]

\* `if not isinstance(..., int) or ... < 1: self._metadata[key] = 1` for
\* sizeC, sizeZ, sizeT; m.nonInt holds the keys whose value is not an int
EnsureValid(m, key) == IF key \in m.nonInt \/ m[key] < 1 THEN 1 ELSE m[key]

\* variant of computeTiles: an image as large as the threshold is tiled
computeTiles_below(m) ==
  IF /\ m.resolutionCount <= 1
     /\ m.sizeX < _singleTileThreshold
     /\ m.sizeY < _singleTileThreshold
  THEN <<m.sizeX, m.sizeY>>
  ELSE IF /\ 128 <= m.optimalTileWidth
          /\ m.optimalTileWidth <= _singleTileThreshold
          /\ 128 <= m.optimalTileHeight
          /\ m.optimalTileHeight <= _singleTileThreshold
       THEN <<m.optimalTileWidth, m.optimalTileHeight>>
       ELSE <<_tileSize, _tileSize>>

\* _computeTiles: <<tileWidth, tileHeight>>
computeTiles(m) ==
  IF /\ m.resolutionCount <= 1
     /\ m.sizeX <= _singleTileThreshold
     /\ m.sizeY <= _singleTileThreshold
  THEN <<m.sizeX, m.sizeY>>
  ELSE IF /\ 128 <= m.optimalTileWidth
          /\ m.optimalTileWidth <= _singleTileThreshold
          /\ 128 <= m.optimalTileHeight
          /\ m.optimalTileHeight <= _singleTileThreshold
       THEN <<m.optimalTileWidth, m.optimalTileHeight>>
       ELSE <<_tileSize, _tileSize>>

\* math.log(float(size) / tile): the exception it raises, "ok" when none
LogRaises(size, tile) ==
  IF tile = 0 THEN "ZeroDivisionError"
  ELSE IF size = 0 \/ (size < 0) # (tile < 0) THEN "ValueError"
  ELSE "ok"

\* the exception _computeLevels raises, "ok" when none
computeLevelsRaises(sizeX, sizeY, tileWidth, tileHeight) ==
  IF LogRaises(sizeX, tileWidth) # "ok" THEN LogRaises(sizeX, tileWidth)
  ELSE LogRaises(sizeY, tileHeight)

\* variant of computeLevels: the `+ 1` is left out
computeLevels_short(sizeX, sizeY, tileWidth, tileHeight) ==
  Max(CeilLog2(Abs(sizeX), Abs(tileWidth)),
      CeilLog2(Abs(sizeY), Abs(tileHeight)))

\* _computeLevels, where it raises nothing
computeLevels(sizeX, sizeY, tileWidth, tileHeight) ==
  Max(CeilLog2(Abs(sizeX), Abs(tileWidth)),
      CeilLog2(Abs(sizeY), Abs(tileHeight))) + 1

\* the attributes _initializeMetadata sets, where it raises nothing
Geometry(m) ==
  LET tiles == computeTiles(m) IN
  [sizeX |-> m.sizeX, sizeY |-> m.sizeY,
   tileWidth |-> tiles[1], tileHeight |-> tiles[2],
   levels |-> computeLevels(m.sizeX, m.sizeY, tiles[1], tiles[2]),
   resolutionCount |-> m.resolutionCount,
   sizeC |-> EnsureValid(m, "sizeC"), sizeZ |-> EnsureValid(m, "sizeZ"),
   sizeT |-> EnsureValid(m, "sizeT")]

\* the exception _initializeMetadata raises, "ok" when none
initializeMetadataRaises(m) ==
  computeLevelsRaises(m.sizeX, m.sizeY, computeTiles(m)[1], computeTiles(m)[2])

\* _xyzInRange of the base tile source: the level exists and the tile
\* starts inside the image
xyzInRange(g, x, y, z) ==
  /\ 0 <= z /\ z < g.levels
  /\ 0 <= x * g.tileWidth * 2^(g.levels - 1 - z)
  /\ x * g.tileWidth * 2^(g.levels - 1 - z) < g.sizeX
  /\ 0 <= y * g.tileHeight * 2^(g.levels - 1 - z)
  /\ y * g.tileHeight * 2^(g.levels - 1 - z) < g.sizeY

\* variant of skipLevels: the loop stops one native level late
RECURSIVE skipLevels_late(_, _, _)
skipLevels_late(level, scale, resolutionCount) ==
  IF level > resolutionCount
  THEN skipLevels_late(level - 1, scale * 2, resolutionCount)
  ELSE [seriesLevel |-> level, scale |-> scale]

\* `while seriesLevel >= resolutionCount: seriesLevel -= 1; scale *= 2`
RECURSIVE skipLevels(_, _, _)
skipLevels(level, scale, resolutionCount) ==
  IF level >= resolutionCount
  THEN skipLevels(level - 1, scale * 2, resolutionCount)
  ELSE [seriesLevel |-> level, scale |-> scale]

\* the native level getTile reads for canonical level z, and the decimation
Series(g, z) == skipLevels(g.levels - 1 - z, 1, g.resolutionCount)

\* variant of Window: width and height are not clipped to the native level
Window_unclipped(g, x, y, z) ==
  LET scale == Series(g, z).scale IN
  [offsetx |-> x * g.tileWidth * scale, offsety |-> y * g.tileHeight * scale,
   width |-> g.tileWidth * scale, height |-> g.tileHeight * scale]

\* offsetx, offsety, width, height of the native read
Window(g, x, y, z) ==
  LET sl == Series(g, z).seriesLevel
      scale == Series(g, z).scale
      offsetx == x * g.tileWidth * scale
      offsety == y * g.tileHeight * scale IN
  [offsetx |-> offsetx, offsety |-> offsety,
   width |-> Min(g.tileWidth * scale, g.sizeX \div 2^sl - offsetx),
   height |-> Min(g.tileHeight * scale, g.sizeY \div 2^sl - offsety)]

\* variant of FromEmptyLevel: every tile is decoded from its own window
FromEmptyLevel_never(g, z) == FALSE

\* `if scale >= 2 ** self._maxSkippedLevels:` the tile is synthesized
FromEmptyLevel(g, z) == Series(g, z).scale >= 2^_maxSkippedLevels

\* read_region is called: `if width > 0 and height > 0`
ReadsRegion(g, x, y, z) ==
  Window(g, x, y, z).width > 0 /\ Window(g, x, y, z).height > 0

\* shape <<rows, columns>> of the array in `tile` after the with block
decodeShape(g, x, y, z) ==
  IF ReadsRegion(g, x, y, z)
  THEN <<Window(g, x, y, z).height, Window(g, x, y, z).width>>
  ELSE <<0, 0>>

\* `if scale > 1: tile = tile[::scale, ::scale]`
decimate(shape, scale) ==
  IF scale > 1 THEN <<CeilDiv(shape[1], scale), CeilDiv(shape[2], scale)>>
  ELSE shape

\* shape of the tile _getTileFromEmptyLevel of the base tile source returns
getTileFromEmptyLevel(g) == <<g.tileHeight, g.tileWidth>>

\* variant of pad: a tile is returned with the shape it was decoded with
pad_never(shape, finalHeight, finalWidth) == shape

\* "Pad to expected size": the shape after it, or the error numpy raises
\* when the tile does not fit into the padded array
pad(shape, finalHeight, finalWidth) ==
  IF shape[1] # finalHeight \/ shape[2] # finalWidth
  THEN IF shape[1] <= finalHeight /\ shape[2] <= finalWidth
       THEN <<finalHeight, finalWidth>>
       ELSE "ValueError"
  ELSE shape

\* dtype of the array in `tile` after the with block: that of the samples
\* read_region returns, uint8 for `np.zeros((0, 0), dtype=np.uint8)`
dtype(m, g, x, y, z) ==
  IF ReadsRegion(g, x, y, z) THEN m.pixelType ELSE "uint8"

\* variant of fill: the padding is dark for every dtype
fill_dark(ty) == 0

\* `fill = 255 if tile.dtype == np.uint8 else 0`
fill(ty) == IF ty = "uint8" THEN 255 ELSE 0

\* sample (i, j) of the tile getTile decodes itself, after
\* `tile[::scale, ::scale]` and `padded[:tile.shape[0], :tile.shape[1]] =
\* tile`: sample (row, col) of the window read, or the fill value
outputSample(m, g, x, y, z, i, j) ==
  LET scale == Series(g, z).scale
      shape == decimate(decodeShape(g, x, y, z), scale) IN
  IF i < shape[1] /\ j < shape[2]
  THEN [decoded |-> TRUE, row |-> i * scale, col |-> j * scale, value |-> 0]
  ELSE [decoded |-> FALSE, row |-> 0, col |-> 0,
        value |-> fill(dtype(m, g, x, y, z))]

\* shape of the tile getTile hands to _outputTile
tileShape(g, x, y, z) ==
  pad(IF FromEmptyLevel(g, z) THEN getTileFromEmptyLevel(g)
      ELSE decimate(decodeShape(g, x, y, z), Series(g, z).scale),
      g.tileHeight, g.tileWidth)

\* offsetx, offsety, width, height outside getTile
NoRegion == [offsetx |-> 0, offsety |-> 0, width |-> 0, height |-> 0]

\* no call has returned a value its caller keeps
NoResult == [call |-> "none"]

\* fc, fz, ft outside getTile, and of frame 0
NoPlane == [c |-> 0, z |-> 0, t |-> 0]

\* variant of framePlane: the channel index is not reduced modulo sizeC
framePlane_flat(g, frame) ==
  [c |-> frame, z |-> (frame \div g.sizeC) % g.sizeZ,
   t |-> ((frame \div g.sizeC) \div g.sizeZ) % g.sizeT]

\* variant of framePlane: remainder and quotient truncate towards zero
framePlane_truncated(g, frame) ==
  IF frame >= 0
  THEN [c |-> frame % g.sizeC, z |-> (frame \div g.sizeC) % g.sizeZ,
        t |-> ((frame \div g.sizeC) \div g.sizeZ) % g.sizeT]
  ELSE [c |-> -((-frame) % g.sizeC),
        z |-> -(((-frame) \div g.sizeC) % g.sizeZ),
        t |-> -((((-frame) \div g.sizeC) \div g.sizeZ) % g.sizeT)]

\* fc, fz, ft of getTile
framePlane(g, frame) ==
  [c |-> frame % g.sizeC, z |-> (frame \div g.sizeC) % g.sizeZ,
   t |-> ((frame \div g.sizeC) \div g.sizeZ) % g.sizeT]

\* the loops of getMetadata over t, z and c, appending one frame each
RECURSIVE framesLoop(_, _, _, _, _)
framesLoop(g, t, z, c, frames) ==
  IF t >= g.sizeT THEN frames
  ELSE IF z >= g.sizeZ THEN framesLoop(g, t + 1, 0, 0, frames)
  ELSE IF c >= g.sizeC THEN framesLoop(g, t, z + 1, 0, frames)
  ELSE framesLoop(g, t, z, c + 1, Append(frames, [c |-> c, z |-> z, t |-> t]))

\* the frames list getMetadata builds; it is published when it has more
\* than one entry
frames(g) == framesLoop(g, 0, 0, 0, <<>>)

\* the native read of getTile(x, y, z) succeeds
Readable(m, g, z) == Series(g, z).seriesLevel \notin m.unreadable

\* variant of validationRead: the constructor reads no tile
validationRead_skipped(m) == TRUE

\* "Verify we can read a tile": self.getTile(0, 0, self.levels - 1) raises
\* nothing
validationRead(m) ==
  LET g == Geometry(m) IN
  /\ xyzInRange(g, 0, 0, g.levels - 1)
  /\ ReadsRegion(g, 0, 0, g.levels - 1) => Readable(m, g, g.levels - 1)
  /\ tileShape(g, 0, 0, g.levels - 1) # "ValueError"

\* variant of construct: the constructor validates nothing
construct_unchecked(m) ==
  IF initializeMetadataRaises(m) # "ok" THEN initializeMetadataRaises(m)
  ELSE "ok"

\* BioformatsFileTileSource.__init__ after the reader was created: the
\* exception it raises, "ok" when it returns a tile source
construct(m) ==
  IF initializeMetadataRaises(m) # "ok" THEN initializeMetadataRaises(m)
  ELSE IF Geometry(m).levels < 1 THEN "TileSourceError"
  ELSE IF m.sizeX <= 0 \/ m.sizeY <= 0 THEN "TileSourceError"
  ELSE IF ~validationRead(m) THEN "TileSourceError"
  ELSE "ok"

\* variant of li_level: the upper test is `>` instead of `>=`
li_level_late(g, level) ==
  LET max_dim == Max(g.sizeX, g.sizeY)
      dz_max_level == IF max_dim > 0 THEN CeilLog2(max_dim, 1) ELSE 0
      level_offset == dz_max_level - (g.levels - 1) IN
  IF level - level_offset < 0 THEN 0
  ELSE IF level - level_offset > g.levels THEN g.levels - 1
  ELSE level - level_offset

\* variant of li_level: the DeepZoom level is clamped, not shifted
li_level_unshifted(g, level) ==
  IF level < 0 THEN 0
  ELSE IF level >= g.levels THEN g.levels - 1
  ELSE level

\* get_dzi_tile: the level it passes to getTile for DeepZoom level `level`
li_level(g, level) ==
  LET max_dim == Max(g.sizeX, g.sizeY)
      dz_max_level == IF max_dim > 0 THEN CeilLog2(max_dim, 1) ELSE 0
      level_offset == dz_max_level - (g.levels - 1) IN
  IF level - level_offset < 0 THEN 0
  ELSE IF level - level_offset >= g.levels THEN g.levels - 1
  ELSE level - level_offset

\* generate_deepzoom_response of the examples: the level it passes to
\* getTile for DeepZoom level `level`
generate_deepzoom_li_level(g, level) ==
  LET tile_size == g.tileWidth
      dz_tile_level == IF tile_size > 0 THEN CeilLog2(tile_size, 1) ELSE 8 IN
  Max(0, Min(level - dz_tile_level, g.levels - 1))

\* the level the route passes to getTile: get_dzi_tile converts its level
canonicalLevel(g, r) ==
  IF r.route = "dzi" THEN li_level(g, r.level) ELSE r.level

\* variant of http_status: every tile-source error is answered alike
http_status_generic(e) == 400

\* the except clauses of get_tile and get_dzi_tile: TileSourceXYZRangeError
\* is answered 404, any other TileSourceError 400
http_status(e) == IF e = "err_range" THEN 404 ELSE 400

\* ---- initial state: SourceManager.__init__ ------------------------------
\* the Java VM of a process that has not called _start_jvm: the module's
\* _jvm_started is False and _jvm_lock is free; another library of the
\* process may have created a JVM already (jpy.has_jvm())
JvmState(existing) ==
  [started |-> FALSE, lock |-> 0, exists |-> existing, creates |-> 0,
   was |-> existing, stopped |-> FALSE]

NoJvm == JvmState(FALSE)

CacheInit ==
  /\ jvm \in {JvmState(e) : e \in BOOLEAN}
  /\ image_dir = 1
  /\ max_sources \in 1..AdminCapacity
  /\ sources = <<>>
  /\ lock = 0
  /\ handles = <<>>
  /\ pc = [t \in Threads |-> "idle"]
  /\ image_id = [t \in Threads |-> 0]
  /\ style = [t \in Threads |-> FALSE]
  /\ path = [t \in Threads |-> NoKey]
  /\ source = [t \in Threads |-> 0]
  /\ seriesLevel = [t \in Threads |-> 0]
  /\ plane = [t \in Threads |-> NoPlane]
  /\ region = [t \in Threads |-> NoRegion]
  /\ ret = NoResult
  /\ now = 0
  /\ acquired = <<>>
  /\ removed = FALSE
  /\ epochOpens = [k \in Keys |-> 0]
  /\ fresh = [t \in Threads |-> FALSE]

Init ==
  /\ CacheInit /\ max_sources <= MaxCapacity /\ meta = NoFile /\ req = NoRequest
  /\ jvm = NoJvm

\* a thread back in its idle state, the arguments and locals of its request
\* dropped
Idle(t) ==
  /\ req' = NoRequest
  /\ pc' = [pc EXCEPT ![t] = "idle"]
  /\ image_id' = [image_id EXCEPT ![t] = 0]
  /\ style' = [style EXCEPT ![t] = FALSE]
  /\ path' = [path EXCEPT ![t] = NoKey]
  /\ source' = [source EXCEPT ![t] = 0]
  /\ seriesLevel' = [seriesLevel EXCEPT ![t] = 0]
  /\ plane' = [plane EXCEPT ![t] = NoPlane]
  /\ region' = [region EXCEPT ![t] = NoRegion]
  /\ fresh' = [fresh EXCEPT ![t] = FALSE]

\* tile sources opened, or that the running requests may still open
Budget == Len(handles) + Cardinality({t \in Threads : pc[t] \in {"gs_lock", "gs_open"}})

\* ---- get_tile -> get_source ---------------------------------------------

\* get_tile calls get_source, which resolves the path before taking the lock
get_source_resolve(t, img, s) ==
  /\ pc[t] = "idle"
  /\ UNCHANGED <<meta, jvm, now>>
  /\ Budget < MaxHandles
  /\ pc' = [pc EXCEPT ![t] = "gs_lock"]
  /\ image_id' = [image_id EXCEPT ![t] = img]
  /\ style' = [style EXCEPT ![t] = Truthy(s)]
  /\ path' = [path EXCEPT ![t] = resolve_image_path(image_dir, img)]
  /\ UNCHANGED <<mgr, handles, source, seriesLevel, plane, region, hist>>

\* get_tile or get_dzi_tile is called with the arguments r and calls
\* get_source
route_call(t, img, s, r) ==
  get_source_resolve(t, img, s) /\ req' = r /\ ret' = NoResult

\* `with self._lock:` and the cache check; a hit returns the cached source
get_source_lookup(t) ==
  /\ pc[t] = "gs_lock"
  /\ UNCHANGED file
  /\ LockFree
  /\ LET k == cache_key(path[t], style[t]) IN
     IF CacheHit(k)
     THEN /\ sources' = setitem(move_to_end(sources, k), k,
                              sources[Lookup(sources, k)].src)
          /\ source' = [source EXCEPT ![t] = sources[Lookup(sources, k)].src]
          /\ pc' = [pc EXCEPT ![t] = "tile"]
          /\ acquired' = Touch(acquired, k)
          /\ fresh' = [fresh EXCEPT ![t] = TRUE]
          /\ UNCHANGED <<image_dir, max_sources, lock, handles, image_id,
                         style, path, seriesLevel, plane, region, removed,
                         epochOpens>>
     ELSE /\ lock' = t
          /\ pc' = [pc EXCEPT ![t] = "gs_open"]
          /\ UNCHANGED <<image_dir, max_sources, sources, handles, locals,
                         hist>>

\* large_image.open returns a new tile source; its constructor has read the
\* tile (0, 0, levels - 1), which left the reader at resolution 0
get_source_open(t) ==
  /\ pc[t] = "gs_open"
  /\ UNCHANGED file
  /\ LET k == cache_key(path[t], style[t])
         h == Len(handles) + 1 IN
     /\ handles' = Append(handles, [image_id |-> image_id[t],
                                    key |-> path[t], styled |-> style[t],
                                    encoding |-> req.encoding,
                                    reader |-> "open", closes |-> 0,
                                    alive |-> TRUE, tileLock |-> 0,
                                    resolution |-> 0])
     /\ source' = [source EXCEPT ![t] = h]
     /\ epochOpens' = IF k # NoKey THEN [epochOpens EXCEPT ![k] = @ + 1]
                      ELSE epochOpens
     /\ pc' = [pc EXCEPT ![t] = "gs_cache"]
  /\ UNCHANGED <<mgr, image_id, style, path, seriesLevel, plane, region,
                 acquired, removed, fresh>>

\* variant of get_source_open_fails: room for the new entry is made before
\* the file is opened
get_source_open_fails_evicts(t) ==
  /\ pc[t] = "gs_open"
  /\ UNCHANGED file
  /\ lock' = 0
  /\ sources' = popitems(sources, max_sources)
  /\ pc' = [pc EXCEPT ![t] = "err_open"]
  /\ UNCHANGED <<image_dir, max_sources, handles, locals, hist>>

\* large_image.open raises: get_source raises TileSourceError and leaves the
\* lock
get_source_open_fails(t) ==
  /\ pc[t] = "gs_open"
  /\ UNCHANGED file
  /\ lock' = 0
  /\ pc' = [pc EXCEPT ![t] = "err_open"]
  /\ UNCHANGED <<image_dir, max_sources, sources, handles, locals, hist>>

\* `if cache_key:` evict while at capacity, insert; then leave the lock and
\* return the source
get_source_cache(t) ==
  /\ pc[t] = "gs_cache"
  /\ UNCHANGED file
  /\ LET k == cache_key(path[t], style[t])
         kept == popitems(sources, max_sources)
         evicted == KeysOf(sources) \ KeysOf(kept) IN
     IF k # NoKey
     THEN /\ sources' = setitem(kept, k, source[t])
          /\ acquired' = Touch(acquired, k)
          /\ epochOpens' = ResetEpoch(epochOpens, evicted)
          /\ fresh' = [Stale(evicted) EXCEPT ![t] = TRUE]
     ELSE UNCHANGED <<sources, acquired, epochOpens, fresh>>
  /\ lock' = 0
  /\ pc' = [pc EXCEPT ![t] = "tile"]
  /\ UNCHANGED <<image_dir, max_sources, handles, locals, removed>>

\* ---- source.getTile -----------------------------------------------------

\* _xyzInRange raises TileSourceXYZRangeError: nothing was locked or read
getTile_out_of_range(t) ==
  /\ pc[t] = "tile"
  /\ UNCHANGED file
  /\ pc' = [pc EXCEPT ![t] = "err_range"]
  /\ UNCHANGED <<mgr, handles, locals, hist>>

\* fc, fz, ft and seriesLevel are computed, then `with self._tileLock:` and
\* self._reader.set_resolution(seriesLevel)
getTile_lock(t, lvl) ==
  /\ pc[t] = "tile"
  /\ UNCHANGED file
  /\ TileLockFree(source[t])
  /\ seriesLevel' = [seriesLevel EXCEPT ![t] = lvl]
  /\ plane' = [plane EXCEPT ![t] = framePlane(Geometry(meta), req.frame)]
  /\ region' = [region EXCEPT ![t] =
                  Window(Geometry(meta), req.x, req.y,
                         canonicalLevel(Geometry(meta), req))]
  /\ handles' = [handles EXCEPT ![source[t]].tileLock = t,
                                ![source[t]].resolution = lvl]
  /\ pc' = [pc EXCEPT ![t] = "read"]
  /\ UNCHANGED <<mgr, image_id, style, path, source, hist>>

\* read_region at the reader's resolution, then the lock is left, the tile
\* is padded and encoded and get_tile returns its Response: the local source
\* goes out of scope
getTile_read(t) ==
  /\ pc[t] = "read"
  /\ UNCHANGED <<meta, jvm, ret, now>>
  /\ handles' = [handles EXCEPT ![source[t]].tileLock = 0]
  /\ Idle(t)
  /\ UNCHANGED <<mgr, acquired, removed, epochOpens>>

\* read_region raises: the with statement leaves the lock
getTile_read_fails(t) ==
  /\ pc[t] = "read"
  /\ UNCHANGED file
  /\ handles' = [handles EXCEPT ![source[t]].tileLock = 0]
  /\ pc' = [pc EXCEPT ![t] = "err_read"]
  /\ UNCHANGED <<mgr, locals, hist>>

\* `if scale >= 2 ** self._maxSkippedLevels:` the tile is put together by
\* _getTileFromEmptyLevel, outside the lock; getTile pads it and returns
getTile_from_empty_level(t) ==
  /\ pc[t] = "tile"
  /\ UNCHANGED <<meta, jvm, ret, now>>
  /\ Idle(t)
  /\ UNCHANGED <<mgr, handles, acquired, removed, epochOpens>>

\* a read _getTileFromEmptyLevel issues raises
getTile_from_empty_level_fails(t) ==
  /\ pc[t] = "tile"
  /\ UNCHANGED file
  /\ pc' = [pc EXCEPT ![t] = "err_read"]
  /\ UNCHANGED <<mgr, handles, locals, hist>>

\* get_dzi_info: 'maxLevel' of the dict it returns
maxLevel(g) == CeilLog2(Max(g.sizeX, g.sizeY), 1)

\* get_dzi_info, after get_source has returned: getMetadata, and the dict
\* is returned
get_dzi_info(t) ==
  /\ pc[t] = "tile"
  /\ UNCHANGED <<meta, jvm, now>>
  /\ LET g == Geometry(meta) IN
       ret' = [call |-> "get_dzi_info", tileSize |-> g.tileWidth,
               width |-> g.sizeX, height |-> g.sizeY, levels |-> g.levels,
               maxLevel |-> maxLevel(g)]
  /\ Idle(t)
  /\ UNCHANGED <<mgr, handles, acquired, removed, epochOpens>>

\* the except clauses of get_tile: the error becomes an HTTPException and
\* the locals go out of scope
get_tile_except(t) ==
  /\ pc[t] \in {"err_open", "err_range", "err_read"}
  /\ UNCHANGED <<meta, jvm, ret, now>>
  /\ Idle(t)
  /\ UNCHANGED <<mgr, handles, acquired, removed, epochOpens>>

\* ---- close_source, clear_cache, image_dir -------------------------------

\* close_source resolves the path before taking the lock
close_source_resolve(t, img) ==
  /\ pc[t] = "idle"
  /\ UNCHANGED <<meta, jvm, req, now>>
  /\ ret' = NoResult
  /\ pc' = [pc EXCEPT ![t] = "cs_lock"]
  /\ image_id' = [image_id EXCEPT ![t] = img]
  /\ path' = [path EXCEPT ![t] = resolve_image_path(image_dir, img)]
  /\ UNCHANGED <<mgr, handles, style, source, seriesLevel, plane, region,
                 hist>>

\* `with self._lock: if cache_key in self._sources: del ...`
close_source_locked(t) ==
  /\ pc[t] = "cs_lock"
  /\ UNCHANGED <<meta, jvm, req, now>>
  /\ LockFree
  /\ LET k == path[t] IN
     IF InCache(k)
     THEN /\ sources' = Without(sources, k)
          /\ removed' = TRUE
          /\ acquired' = <<>>
          /\ epochOpens' = ResetEpoch(epochOpens, {k})
          /\ fresh' = [Stale({k}) EXCEPT ![t] = FALSE]
     ELSE /\ fresh' = [fresh EXCEPT ![t] = FALSE]
          /\ UNCHANGED <<sources, removed, acquired, epochOpens>>
  /\ pc' = [pc EXCEPT ![t] = "idle"]
  /\ image_id' = [image_id EXCEPT ![t] = 0]
  /\ path' = [path EXCEPT ![t] = NoKey]
  /\ UNCHANGED <<image_dir, max_sources, lock, handles, style, source,
                 seriesLevel, plane, region>>

\* close_source called by a caller that drops the value it returns
close_source(t) == close_source_locked(t) /\ UNCHANGED ret

\* close_source called by a caller that keeps the value it returns: True
\* when the key was in the cache
close_source_returns(t) ==
  /\ close_source_locked(t)
  /\ ret' = [call |-> "close_source", found |-> InCache(path[t])]

\* `with self._lock: count = len(...); self._sources.clear()`
clear_cache_locked(t) ==
  /\ pc[t] = "idle"
  /\ UNCHANGED <<meta, jvm, req, now>>
  /\ LockFree
  /\ sources' = <<>>
  /\ removed' = (removed \/ sources # <<>>)
  /\ acquired' = IF sources # <<>> THEN <<>> ELSE acquired
  /\ epochOpens' = ResetEpoch(epochOpens, KeysOf(sources))
  /\ fresh' = Stale(KeysOf(sources))
  /\ UNCHANGED <<image_dir, max_sources, lock, handles, pc, locals>>

\* clear_cache called by a caller that drops the value it returns
clear_cache(t) == clear_cache_locked(t) /\ UNCHANGED ret

\* variant of count: the entries are counted after the cache was cleared
count_cleared(s) == 0

\* `count = len(self._sources)`
count(s) == Len(s)

\* clear_cache called by the route DELETE /cache, which returns the count
clear_cache_returns(t) ==
  /\ clear_cache_locked(t)
  /\ ret' = [call |-> "clear_cache", count |-> count(sources)]

\* `list(self._sources.keys())`
keys(s) == [i \in 1..Len(s) |-> s[i].key]

\* cache_info called by the route GET /cache: `with self._lock:` the
\* dictionary of the cache is built and returned
cache_info(t) ==
  /\ pc[t] = "idle"
  /\ LockFree
  /\ ret' = [call |-> "cache_info", cached_sources |-> Len(sources),
             max_sources |-> max_sources, sources |-> keys(sources)]
  /\ UNCHANGED <<mgr, handles, pc, locals, hist, meta, jvm, req, now>>

\* time passes
tick ==
  /\ now < MaxTime
  /\ now' = now + 1
  /\ UNCHANGED <<mgr, handles, pc, locals, hist, meta, jvm, req, ret>>

\* image_dir setter: `with self._lock:` set the directory, clear the cache
image_dir_setter(t, d) ==
  /\ pc[t] = "idle"
  /\ UNCHANGED file
  /\ LockFree
  /\ image_dir' = d
  /\ sources' = <<>>
  /\ removed' = (removed \/ sources # <<>>)
  /\ acquired' = IF sources # <<>> THEN <<>> ELSE acquired
  /\ epochOpens' = ResetEpoch(epochOpens, KeysOf(sources))
  /\ fresh' = Stale(KeysOf(sources))
  /\ UNCHANGED <<max_sources, lock, handles, pc, locals>>

\* ---- the garbage collector ----------------------------------------------

\* BioformatsFileTileSource.__del__ closes the reader; the reader, then
\* unreferenced too, runs BioformatsReader.__del__, which closes again.  Of
\* the object only its kind, reader state and native close count are kept.
finalize(h) ==
  /\ h \in 1..Len(handles)
  /\ UNCHANGED file
  /\ handles[h].alive
  /\ Unreferenced(h)
  /\ handles' = [handles EXCEPT ![h] =
                   [ReaderClose(ReaderClose(handles[h])) EXCEPT
                      !.alive = FALSE, !.image_id = 0, !.key = NoKey,
                      !.encoding = "JPEG", !.resolution = 0]]
  /\ UNCHANGED <<mgr, pc, locals, hist>>

\* ---- specification ------------------------------------------------------
Next ==
  \/ \E t \in Threads, img \in Images, s \in Styles :
       route_call(t, img, s, NoRequest)
  \/ \E t \in Threads : get_source_lookup(t)
  \/ \E t \in Threads : get_source_open(t)
  \/ \E t \in Threads : get_source_open_fails(t)
  \/ \E t \in Threads : get_source_cache(t)
  \/ \E t \in Threads : getTile_out_of_range(t)
  \/ \E t \in Threads, lvl \in BaseLevels : getTile_lock(t, lvl)
  \/ \E t \in Threads : getTile_read(t)
  \/ \E t \in Threads : getTile_read_fails(t)
  \/ \E t \in Threads : get_tile_except(t)
  \/ \E t \in Threads, img \in Images : close_source_resolve(t, img)
  \/ \E t \in Threads : close_source(t)
  \/ \E t \in Threads : clear_cache(t)
  \/ \E t \in Threads, d \in Dirs : image_dir_setter(t, d)
  \/ \E h \in HandleIds : finalize(h)

Spec == Init /\ [][Next]_vars

TypeOK ==
  /\ image_dir \in Dirs
  /\ max_sources \in 1..MaxCapacity
  /\ lock \in Threads \cup {0}
  /\ Len(handles) <= MaxHandles
  /\ \A t \in Threads : source[t] \in 0..Len(handles)
  /\ \A t \in Threads : seriesLevel[t] \in SeriesLevels
  /\ \A h \in 1..Len(handles) : handles[h].resolution \in SeriesLevels

\* ---- fairness: requests run to completion, garbage is collected ---------

\* the steps of a request that is under way
Progress(t) ==
  \/ get_source_lookup(t)
  \/ get_source_open(t)
  \/ get_source_open_fails(t)
  \/ get_source_cache(t)
  \/ getTile_out_of_range(t)
  \/ \E lvl \in SeriesLevels : getTile_lock(t, lvl)
  \/ getTile_read(t)
  \/ getTile_read_fails(t)
  \/ get_tile_except(t)
  \/ close_source(t)

\* a running request is scheduled again, and reference counting finalizes an
\* object once the last reference to it is gone
Fairness ==
  /\ \A t \in Threads : WF_vars(Progress(t))
  /\ \A h \in HandleIds : WF_vars(finalize(h))

\* The behaviours checked for liveness: a cache of one entry, one image and
\* one tile source fewer than in Spec; every operation remains.
LiveImages == 1..(NumImages - 1)
LiveBudget == Budget < MaxHandles - 1

LiveInit == Init /\ max_sources = 1

LiveNext ==
  \/ \E t \in Threads, img \in LiveImages, s \in Styles :
       LiveBudget /\ route_call(t, img, s, NoRequest)
  \/ \E t \in Threads : get_source_lookup(t)
  \/ \E t \in Threads : get_source_open(t)
  \/ \E t \in Threads : get_source_open_fails(t)
  \/ \E t \in Threads : get_source_cache(t)
  \/ \E t \in Threads : getTile_out_of_range(t)
  \/ \E t \in Threads, lvl \in BaseLevels : getTile_lock(t, lvl)
  \/ \E t \in Threads : getTile_read(t)
  \/ \E t \in Threads : getTile_read_fails(t)
  \/ \E t \in Threads : get_tile_except(t)
  \/ \E t \in Threads, img \in LiveImages : close_source_resolve(t, img)
  \/ \E t \in Threads : close_source(t)
  \/ \E t \in Threads : clear_cache(t)
  \/ \E t \in Threads, d \in Dirs : image_dir_setter(t, d)
  \/ \E h \in HandleIds : finalize(h)

FairSpec == LiveInit /\ [][LiveNext]_vars /\ Fairness

\* ---- requests at every native resolution -------------------------------

\* The behaviours checked for the decode section: the files and tile sources
\* of LiveNext, tiles requested at every native resolution.
TileNext ==
  \/ \E t \in Threads, img \in LiveImages, s \in Styles :
       LiveBudget /\ route_call(t, img, s, NoRequest)
  \/ \E t \in Threads : get_source_lookup(t)
  \/ \E t \in Threads : get_source_open(t)
  \/ \E t \in Threads : get_source_open_fails(t)
  \/ \E t \in Threads : get_source_cache(t)
  \/ \E t \in Threads : getTile_out_of_range(t)
  \/ \E t \in Threads, lvl \in SeriesLevels : getTile_lock(t, lvl)
  \/ \E t \in Threads : getTile_read(t)
  \/ \E t \in Threads : getTile_read_fails(t)
  \/ \E t \in Threads : get_tile_except(t)
  \/ \E t \in Threads, img \in LiveImages : close_source_resolve(t, img)
  \/ \E t \in Threads : close_source(t)
  \/ \E t \in Threads : clear_cache(t)
  \/ \E t \in Threads, d \in Dirs : image_dir_setter(t, d)
  \/ \E h \in HandleIds : finalize(h)

TileSpec == LiveInit /\ [][TileNext]_vars

\* The behaviours checked for the image_dir setter: two threads ask for
\* tiles of one file without a style while the image directory is set, to a
\* directory of Dirs or to another.
DirNext ==
  \/ \E t \in Threads : route_call(t, 1, "none", NoRequest)
  \/ \E t \in Threads : get_source_lookup(t)
  \/ \E t \in Threads : get_source_open(t)
  \/ \E t \in Threads : get_source_cache(t)
  \/ \E t \in Threads, lvl \in BaseLevels : getTile_lock(t, lvl)
  \/ \E t \in Threads : getTile_read(t)
  \/ \E t \in Threads, d \in 1..OtherDir : image_dir_setter(t, d)

DirSpec == LiveInit /\ [][DirNext]_vars

\* ---- one worker, image files of every kind ------------------------------

MaxLevel == 9       \* get_tile is called with level in -1..MaxLevel
MaxDzLevel == 17    \* get_dzi_tile is called with level in -1..MaxDzLevel
MaxFrame == 30      \* get_tile is called with frame in -MaxNegFrame..MaxFrame
MaxNegFrame == 7

File(sizeX, sizeY, resolutionCount, optimalTile, sizes, unreadable) ==
  [sizeX |-> sizeX, sizeY |-> sizeY, resolutionCount |-> resolutionCount,
   optimalTileWidth |-> optimalTile[1], optimalTileHeight |-> optimalTile[2],
   sizeC |-> sizes[1], sizeZ |-> sizes[2], sizeT |-> sizes[3],
   nonInt |-> {}, pixelType |-> "uint8", unreadable |-> unreadable]

\* the file f with samples of pixel type ty
PixelType(f, ty) == [f EXCEPT !.pixelType = ty]

\* the file f whose reader reports no int for the sizes named
NonInteger(f, named) == [f EXCEPT !.nonInt = named]

\* image files: what the reader reports, and the native resolutions whose
\* reads fail
Files ==
  { File(50000, 40000, 10, <<256, 256>>, <<1, 1, 1>>, {}),
    File(50000, 40000, 1, <<0, 0>>, <<1, 1, 1>>, {}),
    File(5000, 3000, 2, <<256, 256>>, <<1, 1, 1>>, {1}),
    File(2049, 1000, 1, <<64, 4096>>, <<1, 1, 1>>, {}),
    File(2048, 2048, 1, <<256, 256>>, <<1, 1, 1>>, {}),
    File(3000, 2049, 1, <<2048, 128>>, <<1, 1, 1>>, {}),
    File(3000, 2000, 1, <<2049, 256>>, <<1, 1, 1>>, {}),
    File(1025, 600, 2, <<512, 512>>, <<3, 5, 2>>, {}),
    PixelType(File(1025, 600, 2, <<512, 512>>, <<2, 1, 3>>, {1}), "uint16"),
    File(1025, 600, 2, <<512, 512>>, <<1, 1, 1>>, {0}),
    PixelType(File(300, 200, 2, <<256, 128>>, <<1, 1, 1>>, {}), "uint16"),
    File(1024, 4096, 2, <<512, 512>>, <<1, 1, 1>>, {}),
    File(100, 80, 1, <<0, 0>>, <<0, 0, 0>>, {}),
    NonInteger(File(100, 80, 1, <<0, 0>>, <<2, -2, 3>>, {}), {"sizeT"}),
    File(256, 256, 2, <<512, 512>>, <<1, 1, 1>>, {}),
    File(100, 100, 3, <<0, 0>>, <<1, 1, 1>>, {}),
    File(0, 100, 1, <<0, 0>>, <<1, 1, 1>>, {}),
    File(0, 100, 2, <<0, 0>>, <<1, 1, 1>>, {}),
    File(100, 0, 1, <<0, 0>>, <<1, 1, 1>>, {}),
    File(-5, 5, 1, <<0, 0>>, <<1, 1, 1>>, {}) }

Columns == {-1, 0, 1, 2, 195, 200}
Rows == {0, 1, 156}

\* the calls of the tile route, for every tile address and for every frame,
\* and of the DeepZoom tile route
Requests ==
  [route : {"tile"}, x : Columns, y : Rows, level : -1..MaxLevel, frame : {0},
   encoding : {"JPEG"}]
  \cup [route : {"tile"}, x : {0}, y : {0}, level : {0}, frame : (-MaxNegFrame)..MaxFrame,
        encoding : {"JPEG"}]
  \cup [route : {"dzi"}, x : {0, 200}, y : {0}, level : -1..MaxDzLevel,
        frame : {0}, encoding : {"JPEG"}]
  \cup [route : {"info"}, x : {0}, y : {0}, level : {0}, frame : {0},
        encoding : {"JPEG"}]

Worker == 1

\* the tile the running request asks getTile for is in range
InRange ==
  xyzInRange(Geometry(meta), req.x, req.y, canonicalLevel(Geometry(meta), req))

FileInit ==
  /\ CacheInit /\ max_sources = 1 /\ meta \in Files /\ req = NoRequest
  /\ jvm = NoJvm

\* The behaviours of one worker serving one image file: whether
\* large_image.open returns a tile source and what getTile does follow from
\* the file and the arguments of the call.
FileNext ==
  \/ \E r \in Requests : route_call(Worker, 1, "none", r)
  \/ get_source_lookup(Worker)
  \/ pc[Worker] = "gs_open" /\ construct(meta) = "ok" /\ get_source_open(Worker)
  \/ pc[Worker] = "gs_open" /\ construct(meta) # "ok"
       /\ get_source_open_fails(Worker)
  \/ get_source_cache(Worker)
  \/ req.route = "info" /\ get_dzi_info(Worker)
  \/ req.route # "info" /\ pc[Worker] = "tile" /\ ~InRange
       /\ getTile_out_of_range(Worker)
  \/ LET g == Geometry(meta)
         z == canonicalLevel(g, req) IN
       req.route # "info" /\
       (\/ pc[Worker] = "tile" /\ InRange /\ FromEmptyLevel(g, z)
             /\ Readable(meta, g, z) /\ getTile_from_empty_level(Worker)
        \/ pc[Worker] = "tile" /\ InRange /\ FromEmptyLevel(g, z)
             /\ ~Readable(meta, g, z) /\ getTile_from_empty_level_fails(Worker)
        \/ pc[Worker] = "tile" /\ InRange /\ ~FromEmptyLevel(g, z)
             /\ getTile_lock(Worker, Series(g, z).seriesLevel)
        \/ pc[Worker] = "read"
             /\ (ReadsRegion(g, req.x, req.y, z) => Readable(meta, g, z))
             /\ getTile_read(Worker)
        \/ pc[Worker] = "read"
             /\ ReadsRegion(g, req.x, req.y, z) /\ ~Readable(meta, g, z)
             /\ getTile_read_fails(Worker))
  \/ get_tile_except(Worker)

FileSpec == FileInit /\ [][FileNext]_vars

\* ---- one worker, every call of the cache's interface -------------------

\* the encodings get_tile is called for: JPEG for every image and style,
\* PNG for the first image without a style
Encodings == {"JPEG", "PNG"}

\* get_tile for tile (0, 0) of level 0 in the encoding e
Encoded(e) == [NoRequest EXCEPT !.encoding = e]

AdminInit == CacheInit /\ meta = NoFile /\ req = NoRequest /\ jvm = NoJvm

\* The behaviours of one worker that calls the cache with every image id,
\* keeps the values clear_cache, close_source and cache_info return, and
\* lets time pass between its calls.
AdminNext ==
  \/ \E img \in ImageIds, s \in Styles, e \in Encodings :
       /\ e # "JPEG" => (img = 1 /\ s = "none")
       /\ route_call(Worker, img, s, Encoded(e))
  \/ get_source_lookup(Worker)
  \/ get_source_open(Worker)
  \/ get_source_cache(Worker)
  \/ \E lvl \in BaseLevels : getTile_lock(Worker, lvl)
  \/ getTile_read(Worker)
  \/ \E img \in ImageIds : close_source_resolve(Worker, img)
  \/ close_source_returns(Worker)
  \/ clear_cache_returns(Worker)
  \/ cache_info(Worker)
  \/ tick

AdminSpec == AdminInit /\ [][AdminNext]_vars

\* ---- _resolve_image_path on a file system --------------------------------

MaxSegs == 3        \* an image id has at most MaxSegs path segments

\* A path is the sequence of its segments below the root; a segment is a
\* name with or without the allowed extension ('.svs').  Name 0 is '..',
\* the directory named d in Dirs is an image directory, OtherDir is a
\* directory that is none; every directory holds the files of Images, named
\* with the extension.
Segments == [name : 0..Max(OtherDir, NumImages), ext : {"", ".svs"}]
Dir(d) == [name |-> d, ext |-> ""]
IsDir(p) == p = <<>> \/ \E d \in 1..OtherDir : p = <<Dir(d)>>
IsFile(p) ==
  \E d \in 1..OtherDir, i \in Images : p = <<Dir(d), [name |-> i, ext |-> ".svs"]>>

\* the image ids of the calls: relative or absolute, the segments separated
\* by '/' or by '%2F'
PathIds ==
  [absolute : BOOLEAN, sep : {"/", "%2F"},
   segs : UNION {[1..n -> Segments] : n \in 1..MaxSegs}]

\* what the operating system makes of the segments `rest` below the
\* directory `cur`: the file or directory they lead to, '..' followed
\* upwards, or nothing
RECURSIVE walk(_, _)
walk(cur, rest) ==
  IF rest = <<>> THEN [exists |-> TRUE, path |-> cur]
  ELSE IF ~IsDir(cur) THEN [exists |-> FALSE, path |-> <<>>]
  ELSE IF Head(rest).name = 0 /\ Head(rest).ext = ""
       THEN walk(IF cur = <<>> THEN cur ELSE SubSeq(cur, 1, Len(cur) - 1),
                 Tail(rest))
  ELSE IF IsDir(Append(cur, Head(rest))) \/ IsFile(Append(cur, Head(rest)))
       THEN walk(Append(cur, Head(rest)), Tail(rest))
  ELSE [exists |-> FALSE, path |-> <<>>]

\* path.relative_to(dir) raises nothing: p is dir or lies below it
relative_to(p, dir) ==
  Len(p) >= Len(dir) /\ SubSeq(p, 1, Len(dir)) = dir

\* _resolve_image_path(image_id) with self._image_dir = dir: the resolved
\* path it returns, or the FileNotFoundError it raises
_resolve_image_path(dir, id) ==
  LET \* image_id.replace('%2F', '/'): every separator is '/'
      normalized == [id EXCEPT !.sep = "/"]
      \* `self._image_dir / image_id`: an absolute image_id replaces the
      \* directory
      joined == IF normalized.absolute THEN normalized.segs
              ELSE <<Dir(dir)>> \o normalized.segs
      last == joined[Len(joined)]
      \* `self._image_dir / f'{image_id}{ext}'`: a name that has the
      \* extension already becomes a name no file has
      candidate == IF last.ext = ""
                   THEN [joined EXCEPT ![Len(joined)].ext = ".svs"]
                   ELSE [joined EXCEPT ![Len(joined)].name = 0]
      direct == walk(<<>>, joined)
      withExt == walk(<<>>, candidate)
      found(p) == [raises |-> "none", path |-> p] IN
  IF direct.exists /\ IsFile(direct.path) THEN found(direct.path)
  ELSE IF withExt.exists /\ IsFile(withExt.path) THEN found(withExt.path)
  ELSE IF /\ normalized.absolute /\ direct.exists
          /\ relative_to(direct.path, walk(<<>>, <<Dir(dir)>>).path)
       THEN found(direct.path)
  ELSE [raises |-> "FileNotFoundError", path |-> <<>>]

\* a call of _resolve_image_path; its result is kept
resolve_call(t, id) ==
  /\ pc[t] = "idle"
  /\ ret' = [call |-> "_resolve_image_path", image_id |-> id,
             result |-> _resolve_image_path(image_dir, id)]
  /\ UNCHANGED <<mgr, handles, pc, locals, meta, jvm, req, now, hist>>

\* The behaviours of one call of _resolve_image_path, for every image id.
PathNext == ret = NoResult /\ \E id \in PathIds : resolve_call(Worker, id)

PathSpec == AdminInit /\ [][PathNext]_vars

\* ---- properties ---------------------------------------------------------

CachedKeys == [i \in 1..Len(sources) |-> sources[i].key]
Opened == 1..Len(handles)
Suffix(a, n) == SubSeq(a, Len(a) - n + 1, Len(a))
Holds(t) == pc[t] \in {"tile", "read"}

\* C1: in every reachable state the cache holds at most max_sources entries
C1_CacheBounded == Len(sources) <= max_sources

\* the cache is full after insertions of more distinct keys than it can hold
C1_Witness == Len(sources) = max_sources /\ Len(acquired) > max_sources

\* C2: the callers that were returned a source for the same key while the
\* key was not removed from the cache all hold the same source, and exactly
\* one call of large_image.open returned a source for that key
C2_SingleOpen ==
  \A t \in Threads : fresh[t] =>
    /\ epochOpens[path[t]] = 1
    /\ \A u \in Threads : (fresh[u] /\ path[u] = path[t]) => source[u] = source[t]

\* two callers hold the source of the same key, opened once
C2_Witness ==
  \E t, u \in Threads : /\ t # u /\ fresh[t] /\ fresh[u]
                        /\ path[t] = path[u] /\ epochOpens[path[t]] = 1

\* C3: the open sources of non-styled requests never outnumber max_sources
OpenNonStyled == {h \in Opened : handles[h].reader = "open" /\ ~handles[h].styled}
C3_OpenHandlesBounded == Cardinality(OpenNonStyled) <= max_sources

\* C4: no two open sources of non-styled requests are for the same cache key
C4_OneOpenHandlePerKey ==
  \A g, h \in OpenNonStyled : handles[g].key = handles[h].key => g = h

\* C5: while no entry was removed explicitly the cache holds, in order of
\* acquisition, the min(max_sources, d) most recently acquired of the d keys
C5_MostRecentKept ==
  ~removed => CachedKeys = Suffix(acquired, Min(max_sources, Len(acquired)))

\* of three keys acquired in a cache of two the first opened one was promoted
\* by a hit and outlived the second
C5_Witness ==
  /\ ~removed /\ max_sources = 2 /\ Len(acquired) = 3 /\ Len(sources) = 2
  /\ sources[1].src = 1 /\ sources[2].src = 3

\* C6: a non-styled get_source that finds its key in the cache returns the
\* cached source without opening one, and the source cached for a key stays
\* the same as long as the key stays in the cache
C6_HitReturnsCached ==
  [][/\ \A t \in Threads :
          (pc[t] = "gs_lock" /\ ~style[t] /\ InCache(path[t]) /\ pc'[t] # pc[t])
          => /\ pc'[t] = "tile"
             /\ source'[t] = sources[Lookup(sources, path[t])].src
             /\ handles' = handles
     /\ \A k \in KeysOf(sources) \cap KeysOf(sources') :
          sources'[Lookup(sources', k)].src = sources[Lookup(sources, k)].src
    ]_vars

\* two requests share one source: the later one was served from the cache
C6_Witness ==
  \E t, u \in Threads : /\ t # u /\ Holds(t) /\ Holds(u)
                        /\ source[t] = source[u]
                        /\ source[t] \in HandlesOf(sources)

\* C7: no step of a styled get_source changes the cache, its lookup always
\* goes on to open a source, the source it gets is a new one, and no source
\* of a styled request is ever in the cache
C7_StyledBypassesCache ==
  /\ [](\A h \in HandlesOf(sources) : ~handles[h].styled)
  /\ [][\A t \in Threads :
          (style[t] /\ pc'[t] # pc[t])
          => /\ sources' = sources
             /\ acquired' = acquired
             /\ pc[t] = "gs_lock" => pc'[t] = "gs_open"
             /\ pc'[t] = "gs_cache" => source'[t] \notin Opened
             /\ pc'[t] = "tile" => source'[t] \notin HandlesOf(sources')
       ]_vars

\* a styled request got a source of its own for a file that is in the cache
C7_Witness ==
  \E t \in Threads : /\ style[t] /\ pc[t] = "tile" /\ InCache(path[t])
                     /\ source[t] \notin HandlesOf(sources)

\* C8: the source opened for a styled request stays open while the request
\* uses it and is eventually closed
C8_StyledEventuallyClosed ==
  /\ [](\A t \in Threads :
          (style[t] /\ Holds(t)) => handles[source[t]].reader = "open")
  /\ \A h \in HandleIds :
       (h \in Opened /\ handles[h].styled)
         ~> (h \in Opened /\ handles[h].reader = "closed")

\* the source of a styled request is closed
C8_Witness ==
  \E h \in Opened : handles[h].styled /\ handles[h].reader = "closed"

\* a source that left the cache: opened for a non-styled request, not in the
\* cache and not about to be put there
Removed(h) ==
  /\ h \in Opened /\ ~handles[h].styled /\ handles[h].alive
  /\ h \notin HandlesOf(sources)
  /\ \A t \in Threads : ~(pc[t] = "gs_cache" /\ source[t] = h)

C10_NoUseAfterClose ==
  \A t \in Threads : Holds(t) =>
    handles[source[t]].reader = "open" /\ handles[source[t]].alive

\* a request reads a source that has left the cache in the meantime
C10_Witness ==
  \E t \in Threads : /\ pc[t] = "read" /\ ~style[t]
                     /\ source[t] \notin HandlesOf(sources)
                     /\ handles[source[t]].reader = "open"

\* C11: at most one thread at a time is in the decode section of a tile
\* source, the thread in it holds the source's lock, and its read_region
\* runs at the resolution its own set_resolution has set
C11_DecodeSerialized ==
  \A t \in Threads : pc[t] = "read" =>
    /\ handles[source[t]].tileLock = t
    /\ handles[source[t]].resolution = seriesLevel[t]
    /\ \A u \in Threads : (pc[u] = "read" /\ source[u] = source[t]) => u = t

\* a thread reads one source at a coarser resolution while another thread,
\* whose request is for the same source, waits for the lock
C11_Witness ==
  \E t, u \in Threads :
    /\ pc[t] = "read" /\ seriesLevel[t] > 0
    /\ pc[u] = "tile" /\ source[u] = source[t]

\* C12: while a thread is inside large_image.open the cache lock is not
\* held: a get_source whose key is in the cache can take its source, and
\* clear_cache can run, without waiting for the open to end
C12_OpenOutsideCacheLock ==
  \A t \in Threads : pc[t] = "gs_open" =>
    \A u \in Threads \ {t} :
      /\ (pc[u] = "gs_lock" /\ CacheHit(cache_key(path[u], style[u])))
           => ENABLED get_source_lookup(u)
      /\ pc[u] = "idle" => ENABLED clear_cache(u)

\* C13: from the cache miss of a get_source to the failure of its open the
\* cache keeps its entries and their order, the failure is raised to the
\* route, and a getTile that fails (address out of range, read failure)
\* changes neither the cache nor the state of any reader
C13_FailureKeepsCache ==
  [][/\ (\E t \in Threads : pc[t] = "gs_open") => sources' = sources
     /\ \A t \in Threads :
          (pc[t] = "gs_open" /\ pc'[t] # "gs_cache" /\ pc'[t] # pc[t])
          => pc'[t] = "err_open" /\ handles' = handles
     /\ \A t \in Threads :
          (pc'[t] \in {"err_range", "err_read"} /\ pc'[t] # pc[t])
          => /\ sources' = sources
             /\ source'[t] = source[t]
             /\ \A h \in Opened : handles'[h].reader = handles[h].reader
    ]_vars

\* with the cache full an open has failed, and a read has failed on a source
\* that is in the cache
C13_Witness ==
  \E t, u \in Threads :
    /\ pc[t] = "err_open" /\ Len(sources) = max_sources /\ max_sources > 1
    /\ pc[u] = "err_read" /\ source[u] \in HandlesOf(sources)

\* ---- properties of one worker serving one image file (FileSpec) ---------

\* the worker holds a tile source: large_image.open has returned one
HasSource == pc[Worker] \in {"gs_cache", "tile", "read", "err_range", "err_read"}

\* the level of the running request, as getTile receives it
Level == canonicalLevel(Geometry(meta), req)

\* the geometry the reader reports can be computed and passes the checks of
\* the constructor
GeometryValid ==
  /\ initializeMetadataRaises(meta) = "ok"
  /\ Geometry(meta).levels >= 1
  /\ meta.sizeX > 0 /\ meta.sizeY > 0

C15_InvalidGeometryRejected ==
  ~GeometryValid => (sources = <<>> /\ handles = <<>> /\ ~HasSource)

\* the open of a file of positive size whose computed levels is less than 1
\* has failed
C15_Witness ==
  /\ pc[Worker] = "err_open" /\ meta.sizeX > 0 /\ meta.sizeY > 0
  /\ Geometry(meta).levels < 1 /\ sources = <<>>

\* C16: a tile address outside the grid is refused before the tile source is
\* locked or read, it is not replaced by an address inside the grid, and
\* the route answers 404 for it and 400 for any other tile-source error
C16_OutOfRange ==
  /\ [](pc[Worker] = "read" =>
          /\ InRange
          /\ seriesLevel[Worker] = Series(Geometry(meta), Level).seriesLevel)
  /\ [](pc[Worker] = "err_range" =>
          ~InRange /\ http_status(pc[Worker]) = 404)
  /\ [](pc[Worker] \in {"err_open", "err_read"} =>
          http_status(pc[Worker]) # 404)
  /\ [][(pc[Worker] = "tile" /\ ~InRange /\ pc'[Worker] # "tile")
          => pc'[Worker] = "err_range" /\ handles' = handles]_vars

\* get_tile has refused a column beyond the grid of an existing level
C16_Witness ==
  /\ pc[Worker] = "err_range" /\ req.route = "tile"
  /\ 0 <= req.level /\ req.level < Geometry(meta).levels
  /\ req.y = 0 /\ req.x > 0

\* C17: the tile getTile builds for an address in range has tileHeight rows
\* and tileWidth columns
C17_TileShape ==
  (pc[Worker] \in {"tile", "read"} /\ InRange) =>
    tileShape(Geometry(meta), req.x, req.y, Level)
      = <<Geometry(meta).tileHeight, Geometry(meta).tileWidth>>

\* getTile is in its decode section with an empty window: nothing is read
\* and the whole tile is padding
C17_Witness ==
  /\ pc[Worker] = "read"
  /\ ~ReadsRegion(Geometry(meta), req.x, req.y, Level)

\* the constructor has run for the file: it raised or returned a tile source
Constructed == pc[Worker] = "err_open" \/ HasSource

\* sizeX, sizeY, tileWidth and tileHeight of the file are positive
PositiveGeometry ==
  /\ meta.sizeX > 0 /\ meta.sizeY > 0
  /\ computeTiles(meta)[1] > 0 /\ computeTiles(meta)[2] > 0

\* a grid of L levels covers the image: one tile at level 0, twice as many
\* in each direction at every further level
Covers(L) ==
  /\ computeTiles(meta)[1] * 2^(L - 1) >= meta.sizeX
  /\ computeTiles(meta)[2] * 2^(L - 1) >= meta.sizeY

\* C18 as claimed: for positive sizes and tile sizes the computed levels is
\* at least 1 and is the least number of levels whose grid covers the image
C18_LevelsMinimal ==
  (Constructed /\ PositiveGeometry) =>
    /\ Geometry(meta).levels >= 1
    /\ Covers(Geometry(meta).levels)
    /\ Geometry(meta).levels >= 2 => ~Covers(Geometry(meta).levels - 1)

\* C18 as amended: for positive sizes and tile sizes the computed levels is
\* at least 1 exactly when a tile is less than twice the image in width or in
\* height, and is then the least number of levels (at least 1) whose grid
\* covers the image; 50000 x 40000 with tiles of 256 x 256 has 9 levels
C18_LevelsMinimalWhenValid ==
  (Constructed /\ PositiveGeometry) =>
    LET levels == Geometry(meta).levels
        tiles == computeTiles(meta) IN
    /\ levels >= 1 <=> (2 * meta.sizeX > tiles[1] \/ 2 * meta.sizeY > tiles[2])
    /\ levels >= 1 => Covers(levels)
    /\ levels >= 2 => ~Covers(levels - 1)
    /\ (meta.sizeX = 50000 /\ meta.sizeY = 40000 /\ tiles = <<256, 256>>)
         => levels = 9

\* the 50000 x 40000 image with tiles of 256 x 256 was opened with 9 levels
C18_Witness ==
  /\ pc[Worker] = "gs_cache" /\ handles # <<>>
  /\ meta.sizeX = 50000 /\ computeTiles(meta) = <<256, 256>>
  /\ Geometry(meta).levels = 9 /\ Covers(9) /\ ~Covers(8)

externalMaxLevel ==
  LET m == Max(meta.sizeX, meta.sizeY) IN
  IF m <= 1 THEN 0
  ELSE CHOOSE k \in 1..MaxLog : 2^k >= m /\ 2^(k - 1) < m

\* externalMaxLevel - (levels - 1)
levelOffset == externalMaxLevel - (Geometry(meta).levels - 1)

\* n - levelOffset clamped into 0..levels-1
Clamped(n) == Max(0, Min(Geometry(meta).levels - 1, n - levelOffset))

\* C20: get_dzi_tile asks getTile for canonical level
\* clamp(n - levelOffset, 0, levels - 1); the native level read is the one of
\* that canonical level, and a DeepZoom request is refused as out of range
\* only for its column or row, never for its level
C20_DziLevelClamped ==
  (HasSource /\ req.route = "dzi") =>
    /\ Level = Clamped(req.level)
    /\ 0 <= Level /\ Level < Geometry(meta).levels
    /\ pc[Worker] = "read" =>
         seriesLevel[Worker] = Series(Geometry(meta), Clamped(req.level)).seriesLevel
    /\ pc[Worker] = "err_range" =>
         /\ ~xyzInRange(Geometry(meta), req.x, req.y, Clamped(req.level))
         /\ req.x # 0 \/ req.y # 0

\* a DeepZoom level above the finest canonical level is read from the
\* finest level, native resolution 0
C20_Witness ==
  /\ pc[Worker] = "read" /\ req.route = "dzi"
  /\ req.level - levelOffset > Geometry(meta).levels - 1
  /\ Level = Geometry(meta).levels - 1 /\ seriesLevel[Worker] = 0

\* ---- properties of one worker calling the cache (AdminSpec) -------------

\* the file an image id names under the image directory
NamedFile(img) == <<image_dir, FileNamed(img)>>

\* the cache entries whose tile source has the file f open
EntriesOf(f) == {i \in 1..Len(sources) : handles[sources[i].src].key = f}

\* the worker leaves the cache check of get_source
Looked == pc[Worker] = "gs_lock" /\ pc'[Worker] # "gs_lock"

\* the cache check was a hit on an entry of the file the image id names: the
\* cached source is returned and nothing is opened
HitOnNamedFile ==
  /\ pc'[Worker] = "tile"
  /\ handles' = handles
  /\ \E i \in EntriesOf(NamedFile(image_id[Worker])) :
       source'[Worker] = sources[i].src

\* C21 as claimed: whatever else the call passes, an acquire whose image id
\* names a file that has a cache entry is a hit on that entry, no file has
\* two entries, and the source an acquire returns has the named file open
C21_KeyIsPathOnly ==
  /\ [](\A f \in Keys : Cardinality(EntriesOf(f)) <= 1)
  /\ [](pc[Worker] = "tile" =>
          handles[source[Worker]].key = NamedFile(image_id[Worker]))
  /\ [][Looked =>
          IF EntriesOf(NamedFile(image_id[Worker])) # {}
          THEN HitOnNamedFile ELSE pc'[Worker] = "gs_open"]_vars

\* C21 as amended: an acquire without a style whose image id names a file
\* that has a cache entry is a hit on that entry, whichever id created it; an
\* acquire with a style is never a hit; no file has two entries, and the
\* source an acquire returns has the named file open
C21_KeyIsPathAndStyleFlag ==
  /\ [](\A f \in Keys : Cardinality(EntriesOf(f)) <= 1)
  /\ [](pc[Worker] = "tile" =>
          handles[source[Worker]].key = NamedFile(image_id[Worker]))
  /\ [][Looked =>
          IF ~style[Worker] /\ EntriesOf(NamedFile(image_id[Worker])) # {}
          THEN HitOnNamedFile ELSE pc'[Worker] = "gs_open"]_vars

\* an acquire by one image id was served the source another id of the same
\* file had opened, the only source opened so far
C21_Witness ==
  /\ pc[Worker] = "tile" /\ ~style[Worker]
  /\ image_id[Worker] # handles[source[Worker]].image_id
  /\ source[Worker] \in HandlesOf(sources) /\ Len(handles) = 1

\* C22: clear_cache returns the number of entries the cache held when it was
\* called and leaves the cache empty; a cache_info that follows reports no
\* cached source, an empty list of keys and the capacity, which never changes
C22_ClearCacheCounts ==
  /\ [](ret.call = "clear_cache" => sources = <<>>)
  /\ [][(ret'.call = "clear_cache" /\ ret' # ret) =>
          /\ ret'.count = Len(sources)
          /\ sources' = <<>>]_vars
  /\ [][(ret.call = "clear_cache" /\ ret'.call = "cache_info") =>
          /\ ret'.cached_sources = 0
          /\ ret'.sources = <<>>
          /\ ret'.max_sources = max_sources]_vars
  /\ [][max_sources' = max_sources]_vars

\* clear_cache has returned 2 for a cache that held two entries
C22_Witness ==
  /\ ret.call = "clear_cache" /\ ret.count = 2
  /\ sources = <<>> /\ Len(handles) = 2

\* the worker leaves close_source
Closed == pc[Worker] = "cs_lock" /\ pc'[Worker] = "idle"

\* C23: close_source removes the entry of the file its image id names and no
\* other, returns True exactly when there was one, and leaves the other
\* entries as they were and in their order; an acquire without a style of a
\* file that has no entry opens the file
C23_CloseSourceRemovesOne ==
  /\ [][Closed =>
          LET k == NamedFile(image_id[Worker]) IN
          /\ ret'.call = "close_source"
          /\ ret'.found = (k \in KeysOf(sources))
          /\ k \notin KeysOf(sources')
          /\ sources' = SelectSeq(sources, LAMBDA e : e.key # k)
          /\ handles' = handles]_vars
  /\ [][(Looked /\ NamedFile(image_id[Worker]) \notin KeysOf(sources)) =>
          pc'[Worker] = "gs_open"]_vars

\* close_source has returned True for the second of three entries: the
\* first and the third are left, in their order
C23_Witness ==
  /\ ret.call = "close_source" /\ ret.found
  /\ Len(handles) = 3 /\ Len(sources) = 2
  /\ sources[1].src = 1 /\ sources[2].src = 3

\* the time to live the tests configure the cache with, in steps of the clock
cache_ttl == 1

\* C24: an acquire without a style whose key is in the cache is a hit while
\* the entry is not older than cache_ttl, and opens the file again when the
\* entry is older
C24_ExpiredNotServed ==
  [][(Looked /\ ~style[Worker] /\ InCache(path[Worker])) =>
       IF now - sources[Lookup(sources, path[Worker])].time > cache_ttl
       THEN pc'[Worker] = "gs_open"
       ELSE pc'[Worker] = "tile" /\ handles' = handles]_vars

\* C25: a thread inside the decode section of one tile source does not keep
\* another thread from entering the decode section of a different tile
\* source whose lock is free, nor from finishing the read it is in
C25_LocksIndependent ==
  \A t, u \in Threads :
    (t # u /\ pc[t] = "read" /\ source[u] # source[t]) =>
      /\ (pc[u] = "tile" /\ handles[source[u]].tileLock = 0)
           => ENABLED getTile_lock(u, 0)
      /\ pc[u] = "read" => ENABLED getTile_read(u)

\* two threads are inside the decode sections of two tile sources at once
C25_Witness ==
  \E t, u \in Threads :
    /\ pc[t] = "read" /\ pc[u] = "read" /\ source[t] # source[u]
    /\ handles[source[t]].tileLock = t /\ handles[source[u]].tileLock = u

\* ---- properties of the geometry and of the native read (FileSpec) -------

\* the native tile hint lies in [128, 2048] on both axes
HintUsable ==
  /\ 128 <= meta.optimalTileWidth /\ meta.optimalTileWidth <= 2048
  /\ 128 <= meta.optimalTileHeight /\ meta.optimalTileHeight <= 2048

\* C26 as claimed: an image of one native resolution whose dimensions are
\* both less than 2048 is one tile and has one level; any other image gets
\* the native tile hint when that lies in [128, 2048] on both axes, and
\* tiles of 512 x 512 otherwise
C26_TileSizeBelow ==
  Constructed =>
    LET tile == computeTiles(meta) IN
    IF meta.resolutionCount <= 1 /\ meta.sizeX < 2048 /\ meta.sizeY < 2048
    THEN /\ tile[1] = meta.sizeX /\ tile[2] = meta.sizeY
         /\ initializeMetadataRaises(meta) = "ok" => Geometry(meta).levels = 1
    ELSE IF HintUsable
         THEN /\ tile[1] = meta.optimalTileWidth
              /\ tile[2] = meta.optimalTileHeight
         ELSE tile[1] = 512 /\ tile[2] = 512

\* C26 as amended: an image of one native resolution whose dimensions are
\* both at most 2048 is one tile and, its sizes not being zero, has one
\* level; any other image gets the native tile hint when that lies in
\* [128, 2048] on both axes, and tiles of 512 x 512 otherwise
C26_TileSizeAtMost ==
  Constructed =>
    LET tile == computeTiles(meta) IN
    IF meta.resolutionCount <= 1 /\ meta.sizeX <= 2048 /\ meta.sizeY <= 2048
    THEN /\ tile[1] = meta.sizeX /\ tile[2] = meta.sizeY
         /\ initializeMetadataRaises(meta) = "ok" => Geometry(meta).levels = 1
    ELSE IF HintUsable
         THEN /\ tile[1] = meta.optimalTileWidth
              /\ tile[2] = meta.optimalTileHeight
         ELSE tile[1] = 512 /\ tile[2] = 512

\* an image of 2048 x 2048 with one native resolution and a usable tile hint
\* was opened as one tile
C26_Witness ==
  /\ pc[Worker] = "gs_cache" /\ handles # <<>>
  /\ meta.sizeX = 2048 /\ meta.sizeY = 2048 /\ HintUsable
  /\ Geometry(meta).tileWidth = 2048 /\ Geometry(meta).levels = 1

\* C27: whatever the reader reports for sizeC, sizeZ and sizeT (zero, a
\* negative number, no int), the sizes the tile source uses are integers of
\* at least 1, so that the frame of getTile is divided and reduced by
\* non-zero numbers only
C27_ExtentsAtLeastOne ==
  Constructed =>
    LET g == [k \in {"sizeC", "sizeZ", "sizeT"} |-> EnsureValid(meta, k)] IN
    /\ \A k \in DOMAIN g :
         /\ g[k] \in Nat /\ g[k] >= 1
         /\ (k \notin meta.nonInt /\ meta[k] >= 1) => g[k] = meta[k]
    /\ pc[Worker] = "read" =>
         plane[Worker] = [c |-> req.frame % g.sizeC,
                          z |-> (req.frame \div g.sizeC) % g.sizeZ,
                          t |-> ((req.frame \div g.sizeC) \div g.sizeZ)
                                   % g.sizeT]

\* a tile of frame 1 is read from a file whose reader reports sizeC = 2, a
\* negative sizeZ and no int for sizeT
C27_Witness ==
  /\ pc[Worker] = "read" /\ req.frame = 1
  /\ meta.sizeC = 2 /\ meta.sizeZ < 0 /\ meta.nonInt = {"sizeT"}
  /\ plane[Worker] = [c |-> 1, z |-> 0, t |-> 0]

\* C28: every canonical level l below levels, sent to the DeepZoom level
\* l + levelOffset, comes back from get_dzi_tile's conversion as l; for every
\* DeepZoom level n the conversion of n, sent out and converted again, is the
\* conversion of n; and the maxLevel get_dzi_info publishes converts to
\* canonical level levels - 1
C28_LevelRoundTrip ==
  LET g == Geometry(meta) IN
  /\ HasSource =>
       /\ \A l \in 0..(g.levels - 1) :
            /\ li_level(g, l + levelOffset) = l
            /\ (l + levelOffset) - levelOffset \in 0..(g.levels - 1)
       /\ \A n \in -1..MaxDzLevel :
            li_level(g, li_level(g, n) + levelOffset) = li_level(g, n)
  /\ ret.call = "get_dzi_info" =>
       /\ ret.levels = g.levels
       /\ li_level(g, ret.maxLevel) = ret.levels - 1

\* get_dzi_info has published maxLevel 16 for an image of 9 levels, whose
\* DeepZoom levels are 8 above the canonical ones
C28_Witness ==
  /\ ret.call = "get_dzi_info" /\ ret.maxLevel = 16 /\ ret.levels = 9
  /\ levelOffset = 8 /\ li_level(Geometry(meta), 16) = 8

\* C29: for every canonical level z below levels, and a file of at least one
\* native resolution, the loop of getTile ends with
\* 0 <= seriesLevel <= resolutionCount - 1 and scale = 2^k, where
\* k = max(0, (levels - 1 - z) - (resolutionCount - 1)), so that
\* seriesLevel + k = levels - 1 - z; the native level getTile sets on the
\* reader is that seriesLevel
C29_SeriesLevelAndScale ==
  (HasSource /\ meta.resolutionCount >= 1) =>
    LET g == Geometry(meta) IN
    /\ \A z \in 0..(g.levels - 1) :
         LET k == Max(0, (g.levels - 1 - z) - (g.resolutionCount - 1))
             s == Series(g, z) IN
         /\ 0 <= s.seriesLevel /\ s.seriesLevel <= g.resolutionCount - 1
         /\ s.scale = 2^k
         /\ s.seriesLevel + k = g.levels - 1 - z
    /\ pc[Worker] = "read" =>
         /\ seriesLevel[Worker] = Series(g, Level).seriesLevel
         /\ handles[source[Worker]].resolution = seriesLevel[Worker]

\* a tile of canonical level 1 of an image with 4 levels and 2 native
\* resolutions is read from native level 1 and decimated by 2
C29_Witness ==
  /\ pc[Worker] = "read" /\ Level = 1
  /\ Geometry(meta).levels = 4 /\ meta.resolutionCount = 2
  /\ seriesLevel[Worker] = 1 /\ Series(Geometry(meta), Level).scale = 2

\* C30: every read_region getTile issues has offsetx = x*tileWidth*scale >= 0,
\* offsety = y*tileHeight*scale >= 0, width > 0, height > 0,
\* offsetx + width <= sizeX div 2^seriesLevel and
\* offsety + height <= sizeY div 2^seriesLevel; when the clipped width or
\* height is not positive, read_region is not called (no read can fail) and
\* the buffer is empty
C30_ReadWindow ==
  /\ [](pc[Worker] = "read" =>
          LET g == Geometry(meta)
              w == region[Worker]
              sl == seriesLevel[Worker]
              scale == Series(g, Level).scale IN
          /\ w.offsetx = req.x * g.tileWidth * scale
          /\ w.offsety = req.y * g.tileHeight * scale
          /\ ReadsRegion(g, req.x, req.y, Level)
               <=> (w.width > 0 /\ w.height > 0)
          /\ (w.width > 0 /\ w.height > 0) =>
               /\ w.offsetx >= 0 /\ w.offsety >= 0
               /\ w.offsetx + w.width <= g.sizeX \div 2^sl
               /\ w.offsety + w.height <= g.sizeY \div 2^sl
          /\ (w.width <= 0 \/ w.height <= 0) =>
               decodeShape(g, req.x, req.y, Level) = <<0, 0>>)
  /\ [][(/\ pc[Worker] = "read"
         /\ region[Worker].width <= 0 \/ region[Worker].height <= 0
         /\ pc'[Worker] # "read")
          => pc'[Worker] = "idle"]_vars

\* a decimated tile at the right and bottom edge of its level is read from a
\* window away from the origin, clipped on both axes
C30_Witness ==
  /\ pc[Worker] = "read"
  /\ Series(Geometry(meta), Level).scale > 1
  /\ region[Worker].offsetx > 0 /\ region[Worker].offsety > 0
  /\ region[Worker].width > 0 /\ region[Worker].height > 0
  /\ region[Worker].width
       < Geometry(meta).tileWidth * Series(Geometry(meta), Level).scale
  /\ region[Worker].height
       < Geometry(meta).tileHeight * Series(Geometry(meta), Level).scale

\* C31 as claimed: getTile puts the tile together from finer tiles, without
\* a native read of its own, exactly when scale is greater than
\* 2^_maxSkippedLevels = 8; for every scale up to and including 8 it takes
\* the tile lock and decodes the window at seriesLevel
C31_SynthesizedAboveBound ==
  [][(/\ pc[Worker] = "tile" /\ req.route # "info" /\ InRange
      /\ pc'[Worker] # "tile")
       => LET s == Series(Geometry(meta), Level) IN
          IF s.scale > 2^_maxSkippedLevels
          THEN pc'[Worker] \in {"idle", "err_read"}
          ELSE pc'[Worker] = "read" /\ seriesLevel'[Worker] = s.seriesLevel]_vars

\* C32: whatever the canonical level and the number of native resolutions,
\* a read_region getTile issues covers at most
\* (tileWidth * 2^_maxSkippedLevels) x (tileHeight * 2^_maxSkippedLevels)
\* native pixels
C32_ReadBounded ==
  pc[Worker] = "read" =>
    LET g == Geometry(meta)
        w == region[Worker] IN
    /\ Series(g, Level).scale <= 2^_maxSkippedLevels
    /\ w.width <= g.tileWidth * 2^_maxSkippedLevels
    /\ w.height <= g.tileHeight * 2^_maxSkippedLevels
    /\ w.width <= g.tileWidth * Series(g, Level).scale
    /\ w.height <= g.tileHeight * Series(g, Level).scale

\* a tile two canonical levels below the coarsest native level is read from
\* a window of 4 x 4 tiles, unclipped
C32_Witness ==
  /\ pc[Worker] = "read"
  /\ Series(Geometry(meta), Level).scale = 4
  /\ region[Worker].width = 4 * Geometry(meta).tileWidth
  /\ region[Worker].height = 4 * Geometry(meta).tileHeight

\* rows (columns) of a tile of `size` rows of which the first n are decoded:
\* the first and last decoded one, the first and last padded one
Probe(n, size) == {0, n - 1, n, size - 1} \cap (0..(size - 1))

C34_ExampleAgreesWithServer ==
  HasSource =>
    \A n \in -1..MaxDzLevel :
      generate_deepzoom_li_level(Geometry(meta), n) = li_level(Geometry(meta), n)

\* C35 as claimed: the tile source get_source returns for a call without a
\* style was opened with the encoding of that call, so that get_tile serves
\* a tile in the format its media type names
C35_EncodingAsRequested ==
  (pc[Worker] \in {"tile", "read"} /\ ~style[Worker]) =>
    handles[source[Worker]].encoding = req.encoding

\* C36 as claimed: every path _resolve_image_path returns lies inside the
\* image directory, whatever the image id: with '..' segments, absolute, or
\* with URL-encoded separators
C36_PathInsideImageDir ==
  (ret.call = "_resolve_image_path" /\ ret.result.raises = "none") =>
    relative_to(ret.result.path, <<Dir(image_dir)>>)

\* C37 as claimed: once the image directory has been set, every entry of
\* the cache has a key that was resolved against the directory set, however
\* the assignment interleaves with the get_source calls under way
C37_CacheOfCurrentDir ==
  \A i \in 1..Len(sources) : sources[i].key[1] = image_dir

\* ---- _start_jvm and _stop_jvm ---------------------------------------------

MaxCreates == 2

\* jpy.has_jvm()
has_jvm_blind == FALSE

has_jvm == jvm.exists

jvmRest == <<mgr, handles, locals, hist, meta, req, ret, now>>

\* `with _jvm_lock:` a thread enters _start_jvm
start_jvm_lock(t) ==
  /\ pc[t] = "idle"
  /\ jvm.lock = 0
  /\ jvm' = [jvm EXCEPT !.lock = t]
  /\ pc' = [pc EXCEPT ![t] = "jvm_locked"]
  /\ UNCHANGED jvmRest

\* `if _jvm_started: return True`
start_jvm_started(t) ==
  /\ pc[t] = "jvm_locked"
  /\ jvm.started
  /\ jvm' = [jvm EXCEPT !.lock = 0]
  /\ pc' = [pc EXCEPT ![t] = "jvm_true"]
  /\ UNCHANGED jvmRest

\* `if jpy.has_jvm(): _jvm_started = True; return True`
start_jvm_has_jvm(t) ==
  /\ pc[t] = "jvm_locked"
  /\ ~jvm.started
  /\ has_jvm
  /\ jvm' = [jvm EXCEPT !.started = TRUE, !.lock = 0]
  /\ pc' = [pc EXCEPT ![t] = "jvm_true"]
  /\ UNCHANGED jvmRest

\* jpy.create_jvm returns, `_jvm_started = True`, logging is reduced (its own
\* errors caught), _stop_jvm is registered, `return True`
start_jvm_create(t) ==
  /\ pc[t] = "jvm_locked"
  /\ ~jvm.started
  /\ ~has_jvm
  /\ jvm.creates < MaxCreates
  /\ jvm' = [jvm EXCEPT !.started = TRUE, !.exists = TRUE, !.was = TRUE,
                        !.creates = @ + 1, !.lock = 0]
  /\ pc' = [pc EXCEPT ![t] = "jvm_true"]
  /\ UNCHANGED jvmRest

\* the import of jpy, the search for the jar or jpy.create_jvm raises:
\* `except Exception: ... return False`
start_jvm_fails(t) ==
  /\ pc[t] = "jvm_locked"
  /\ ~jvm.started
  /\ jvm' = [jvm EXCEPT !.lock = 0]
  /\ pc' = [pc EXCEPT ![t] = "jvm_false"]
  /\ UNCHANGED jvmRest

\* the caller of _start_jvm has its result
start_jvm_return(t) ==
  /\ pc[t] \in {"jvm_true", "jvm_false"}
  /\ pc' = [pc EXCEPT ![t] = "idle"]
  /\ UNCHANGED <<jvmRest, jvm>>

\* _stop_jvm, which takes no lock: `if _jpy.has_jvm(): _jpy.destroy_jvm()`
stop_jvm_destroy(t) ==
  /\ pc[t] = "idle"
  /\ jvm' = [jvm EXCEPT !.exists = FALSE, !.stopped = TRUE]
  /\ pc' = [pc EXCEPT ![t] = "jvm_stopping"]
  /\ UNCHANGED jvmRest

\* _stop_jvm: `_jvm_started = False`
stop_jvm_reset(t) ==
  /\ pc[t] = "jvm_stopping"
  /\ jvm' = [jvm EXCEPT !.started = FALSE]
  /\ pc' = [pc EXCEPT ![t] = "idle"]
  /\ UNCHANGED jvmRest

JvmInit == CacheInit /\ max_sources = 1 /\ meta = NoFile /\ req = NoRequest

JvmNext ==
  \E t \in Threads :
    \/ start_jvm_lock(t)
    \/ start_jvm_started(t)
    \/ start_jvm_has_jvm(t)
    \/ start_jvm_create(t)
    \/ start_jvm_fails(t)
    \/ start_jvm_return(t)
    \/ stop_jvm_destroy(t)
    \/ stop_jvm_reset(t)

\* The behaviours of the threads of a process that start and stop the JVM.
JvmSpec == JvmInit /\ [][JvmNext]_vars

\* C38: for any interleaving of concurrent _start_jvm calls, (a) a JVM is
\* created only while no JVM exists, so at most once per existing JVM, (b) a
\* call that returns True returns after a JVM has been started, and while no
\* _stop_jvm has run that JVM exists and _jvm_started is set, (c) a call that
\* returns False leaves _jvm_started False, and the next call that holds the
\* lock with no JVM present can attempt the creation again.
C38_StartOnce ==
  /\ [][jvm'.creates # jvm.creates
          => ~jvm.exists /\ jvm'.exists /\ jvm'.creates = jvm.creates + 1]_vars
  /\ [](\A t \in Threads : pc[t] = "jvm_true" =>
          /\ jvm.was
          /\ ~jvm.stopped => jvm.exists /\ jvm.started)
  /\ [](~jvm.stopped => jvm.creates <= 1)
  /\ [][\A t \in Threads : pc[t] # "jvm_false" /\ pc'[t] = "jvm_false"
          => ~jvm'.started /\ jvm'.exists = jvm.exists
             /\ jvm'.creates = jvm.creates]_vars
  /\ [](\A t \in Threads :
          pc[t] = "jvm_locked" /\ ~jvm.started /\ ~jvm.exists
              /\ jvm.creates < MaxCreates
            => ENABLED start_jvm_create(t))

\* one call failed and holds False while a concurrent call has created the
\* JVM and holds True
C38_Witness ==
  /\ \E t, u \in Threads : pc[t] = "jvm_false" /\ pc[u] = "jvm_true"
  /\ jvm.creates = 1 /\ jvm.exists /\ jvm.started /\ ~jvm.stopped

\* ---- frames outside the frames list ---------------------------------------

\* C39: for any integer frame, negative or at least sizeC*sizeZ*sizeT too,
\* the plane getTile reads has 0 <= c < sizeC, 0 <= z < sizeZ and
\* 0 <= t < sizeT and is the plane of the frame taken modulo
\* sizeC*sizeZ*sizeT, and getTile raises a range error for the tile address
\* only, never for the frame
C39_FrameWraps ==
  /\ [](pc[Worker] = "read" =>
          LET g == Geometry(meta)
              n == g.sizeC * g.sizeZ * g.sizeT
              p == plane[Worker] IN
          /\ p.c \in 0..(g.sizeC - 1)
          /\ p.z \in 0..(g.sizeZ - 1)
          /\ p.t \in 0..(g.sizeT - 1)
          /\ (req.frame % n) = p.c + g.sizeC * (p.z + g.sizeZ * p.t))
  /\ [][pc[Worker] = "tile" /\ pc'[Worker] = "err_range" => ~InRange]_vars
  /\ [](pc[Worker] = "tile" /\ req.route = "tile" /\ InRange
          /\ ~FromEmptyLevel(Geometry(meta), canonicalLevel(Geometry(meta), req))
        => ENABLED getTile_lock(Worker, Series(Geometry(meta),
                     canonicalLevel(Geometry(meta), req)).seriesLevel))

\* getTile reads frame -1 of an image with 3 channels, 5 slices and 2 times:
\* the last plane
C39_Witness ==
  /\ pc[Worker] = "read" /\ req.frame = -1
  /\ Geometry(meta).sizeC = 3 /\ Geometry(meta).sizeZ = 5
  /\ Geometry(meta).sizeT = 2
  /\ plane[Worker] = [c |-> 2, z |-> 4, t |-> 1]

\* ---- the DeepZoom descriptor ----------------------------------------------

\* tile_size of get_dzi_descriptor: the TileSize attribute of the descriptor
tile_size(m) == computeTiles(m)[1]

\* C40: every tile served for a DeepZoom descriptor is square with side the
\* TileSize the descriptor publishes: tileWidth = tileHeight for every tile
\* source, and a tile of the DeepZoom route has TileSize rows and columns
C40_SquareDziTiles ==
  /\ HasSource => computeTiles(meta)[1] = computeTiles(meta)[2]
  /\ (pc[Worker] = "read" /\ req.route = "dzi") =>
       tileShape(Geometry(meta), req.x, req.y, Level)
         = <<tile_size(meta), tile_size(meta)>>

====
